---- MODULE Spec2Model ----
(***************************************************************************)
(* The data-access layer of htmx-fiber (src/main.go): the SQLiteRepository *)
(* over the books table of a SQLite store.                                 *)
(*                                                                         *)
(* The store is the set of committed rows of the books table together with *)
(* the AUTOINCREMENT counter.  Every repository method that issues one     *)
(* statement is one atomic step.  ListBooks issues two statements (count,  *)
(* then page select) and BulkUpdateBooks issues begin, prepare, one update *)
(* per entity and commit; each statement is a step of its own, so steps of *)
(* other requests interleave between them.  Every statement can fail       *)
(* (the fail parameter): the store is an external collaborator.            *)
(*                                                                         *)
(* Strings are sequences of one-character strings, so that LIKE is         *)
(* computed as SQLite computes it.                                         *)
(*                                                                         *)
(* Handler.ListBooks adds the page number and the pagination controls it   *)
(* computes from the TotalCount.  The accounts table is read only.         *)
(*                                                                         *)
(* Spec is the whole program.  The properties are checked under workloads  *)
(* (SpecCrud, SpecList, SpecRace, SpecBulk, SpecDelete, SpecSales,         *)
(* SpecWrite, SpecRead, SpecPage): the same actions, restricted to the     *)
(* methods a property is about.                                            *)
(***************************************************************************)
EXTENDS Integers, Sequences, FiniteSets, TLC

VARIABLES
    books,   \* committed rows of table books: a set of [ID, Title, HasSales]
    seq,     \* sqlite_sequence value of table books (AUTOINCREMENT)
    list,    \* the ListBooks call in flight (between its two statements)
    bulk,    \* the BulkUpdateBooks call in flight (its transaction)
    resp,    \* the result most recently returned by a repository method
             \* (forgotten when a ListBooks or BulkUpdateBooks call starts)
    rendered \* what Handler.ListBooks most recently computed for the
             \* template: the page, the total count and the Pagination

vars == <<books, seq, list, bulk, resp, rendered>>

----------------------------------------------------------------------------
(* Bounds of the model *)

\* rows inserted by NewDatabase (the source inserts 7)
NumSample == 1
\* largest rowid AUTOINCREMENT hands out in one run (caps the counter)
MaxId == 2
\* longest id list / entity batch passed to a bulk method
MaxBatch == 2
\* largest limit passed to ListBooks
MaxLimit == 2
\* largest ?page= query value a request carries
MaxPage == 8
\* largest TotalCount handed to the pagination of Handler.ListBooks
MaxTotal == 13

----------------------------------------------------------------------------
(* Values *)

Min(a, b) == IF a < b THEN a ELSE b

SetMax(S) == CHOOSE x \in S : \A y \in S : y <= x

\* 'Sample Book <i>' of NewDatabase, shortened to two characters
SampleTitle(i) == IF i = 1 THEN <<"S", "1">> ELSE IF i = 2 THEN <<"S", "2">> ELSE <<"S", "3">>

\* the rows NewDatabase inserts: only the first one has has_sales = 1
SampleBooks == { [ID |-> i, Title |-> SampleTitle(i), HasSales |-> (i = 1)] : i \in 1..NumSample }

\* titles a caller passes to CreateBook / UpdateBook / BulkUpdateBooks
TitleSet == { <<"B">>, <<"S", "1">> }

\* search strings a caller passes to ListBooks ("" is the empty sequence)
SearchSet == { <<>>, <<"b">>, <<"_">> }

\* filter tokens a caller passes to ListBooks ("bogus" is an unrecognized one)
FilterSet == { "all", "on_sale", "not_on_sale", "bogus" }

IdSet == 0..MaxId

\* *Book values a caller passes in
BookInputs == [ID : IdSet, Title : TitleSet, HasSales : BOOLEAN]

RECURSIVE SeqsUpTo(_, _)
SeqsUpTo(S, n) ==
    IF n = 0 THEN { <<>> }
    ELSE LET shorter == SeqsUpTo(S, n - 1)
         IN  shorter \cup { Append(s, x) : s \in { t \in shorter : Len(t) = n - 1 }, x \in S }

\* []int arguments of DeleteBooks and BulkUpdateBooksSalesStatus
IdLists == SeqsUpTo(1..MaxId, MaxBatch)

\* offsets a caller passes to ListBooks: up to past the last row
OffsetSet == 0..MaxId

\* the entities of a BulkUpdateBooks batch: two ids, two values per id, so
\* that a batch can name one id twice with different values
BatchIds == { 1, 2 }
BatchEntities ==
    { [ID |-> id, Title |-> <<"B">>, HasSales |-> TRUE] : id \in BatchIds }
    \cup { [ID |-> id, Title |-> <<"S", "1">>, HasSales |-> FALSE] : id \in BatchIds }
Batches == SeqsUpTo(BatchEntities, MaxBatch)

Range(s) == { s[i] : i \in 1..Len(s) }

\* error values: nil, sql.ErrNoRows, and any other error of the store
ErrNil == "nil"
ErrNoRows == "sql.ErrNoRows"
ErrStore == "store error"

----------------------------------------------------------------------------
(* SQLite's LIKE: '%' matches any run of characters, '_' matches exactly    *)
(* one character, any other character matches itself ignoring ASCII case.  *)

Lower(c) == IF c = "S" THEN "s" ELSE IF c = "B" THEN "b" ELSE c

RECURSIVE Like(_, _)
Like(pat, str) ==
    IF pat = <<>> THEN str = <<>>
    ELSE IF Head(pat) = "%"
         THEN Like(Tail(pat), str) \/ (str # <<>> /\ Like(pat, Tail(str)))
         ELSE /\ str # <<>>
              /\ (Head(pat) = "_" \/ Lower(Head(pat)) = Lower(Head(str)))
              /\ Like(Tail(pat), Tail(str))

----------------------------------------------------------------------------
(* ListBooks, step 1: the WHERE clause and its arguments *)

WhereClauses(search, filter) ==
    (IF search # <<>> THEN << "title LIKE ?" >> ELSE <<>>)
    \o (IF filter = "on_sale" THEN << "has_sales = 1" >>
        ELSE IF filter = "not_on_sale" THEN << "has_sales = 0" >>
        ELSE <<>>)

WhereArgs(search) ==
    IF search # <<>> THEN << <<"%">> \o search \o <<"%">> >> ELSE <<>>

\* one clause of the WHERE string evaluated on a row; the only clause with a
\* placeholder is the LIKE clause, which is always the first one
EvalClause(clause, args, row) ==
    IF clause = "title LIKE ?" THEN Like(args[1], row.Title)
    ELSE IF clause = "has_sales = 1" THEN row.HasSales
    ELSE IF clause = "has_sales = 0" THEN ~row.HasSales
    ELSE FALSE

\* strings.Join(whereClauses, " AND "); no clause means no WHERE
EvalWhere(clauses, args, row) ==
    \A i \in 1..Len(clauses) : EvalClause(clauses[i], args, row)

\* a count that leaves the WHERE string out
CountQuery_NoWhere(rows, clauses, args) == Cardinality(rows)

\* SELECT COUNT(*) FROM books <where>
CountQuery(rows, clauses, args) ==
    Cardinality({ b \in rows : EvalWhere(clauses, args, b) })

RECURSIVE OrderById(_)
OrderById(rows) ==
    IF rows = {} THEN <<>>
    ELSE LET first == CHOOSE b \in rows : \A c \in rows : b.ID <= c.ID
         IN  <<first>> \o OrderById(rows \ {first})

\* a page select that leaves LIMIT out
ListQuery_NoLimit(rows, clauses, args, limit, offset) ==
    LET matched == OrderById({ b \in rows : EvalWhere(clauses, args, b) })
    IN  SubSeq(matched, offset + 1, Len(matched))

\* a page select that moves an offset past the end back to the last row
ListQuery_ClampOffset(rows, clauses, args, limit, offset) ==
    LET matched == OrderById({ b \in rows : EvalWhere(clauses, args, b) })
        from == IF offset >= Len(matched) /\ Len(matched) > 0 THEN Len(matched) - 1
                ELSE offset
    IN  SubSeq(matched, from + 1, Min(Len(matched), from + limit))

\* SELECT id, title, has_sales FROM books <where> ORDER BY id LIMIT ? OFFSET ?
ListQuery(rows, clauses, args, limit, offset) ==
    LET matched == OrderById({ b \in rows : EvalWhere(clauses, args, b) })
    IN  SubSeq(matched, offset + 1, Min(Len(matched), offset + limit))

----------------------------------------------------------------------------
(* State after construction *)

\* the zero value Book{}
ZeroBook == [ID |-> 0, Title |-> <<>>, HasSales |-> FALSE]

\* no call has returned yet.  op, err: the method and the error it returned;
\* book: the *Book it returned (<<>> is nil); books, total: the
\* PaginatedBooks; stmts: the number of statements the call sent to the
\* store; the other fields are the arguments of the call
NoCall == [op |-> "none", err |-> ErrNil, book |-> <<>>, books |-> <<>>,
           total |-> 0, stmts |-> 0,
           id |-> 0, ids |-> <<>>, status |-> FALSE, entity |-> ZeroBook,
           batch |-> <<>>, limit |-> 0, offset |-> 0, search |-> <<>>,
           filter |-> "", accounts |-> <<>>, rowsErr |-> ErrNil]

ListIdle == [pc |-> "idle", limit |-> 0, offset |-> 0, search |-> <<>>,
             filter |-> "all", totalCount |-> 0]

BulkIdle == [pc |-> "idle", batch |-> <<>>, i |-> 0, work |-> {}, locked |-> FALSE]

\* nothing rendered yet: the zero Pagination
NoRender == [done |-> FALSE, page |-> 0, totalCount |-> 0,
             Pagination |-> [CurrentPage |-> 0, TotalPages |-> 0, HasPrev |-> FALSE,
                             HasNext |-> FALSE, PrevPage |-> 0, NextPage |-> 0]]

\* NewDatabase on a fresh app.db: the sample rows, counter at the largest id
Init ==
    /\ books = SampleBooks
    /\ seq = NumSample
    /\ list = ListIdle
    /\ bulk = BulkIdle
    /\ resp = NoCall
    /\ rendered = NoRender

\* a connection outside the bulk transaction can write only while that
\* transaction does not hold the database's write lock
WriteLockFree == ~bulk.locked

Returned(op, err, stmts) == [NoCall EXCEPT !.op = op, !.err = err, !.stmts = stmts]

----------------------------------------------------------------------------
(* Statements of the single-statement methods *)

\* SELECT id, title, has_sales FROM books WHERE id = ?
SelectById(rows, id) == { b \in rows : b.ID = id }

\* an update that leaves WHERE id = ? out
UpdateRow_NoWhere(rows, book) ==
    { [b EXCEPT !.Title = book.Title, !.HasSales = book.HasSales] : b \in rows }

\* UPDATE books SET title = ?, has_sales = ? WHERE id = ?
UpdateRow(rows, book) ==
    { IF b.ID = book.ID THEN [b EXCEPT !.Title = book.Title, !.HasSales = book.HasSales]
      ELSE b : b \in rows }

\* the '?' of "IN (?" + strings.Repeat(",?", len(ids)-1) + ")"
InPlaceholders(n) == 1 + (n - 1)

\* the ids bound to the IN list: args[from], args[from+1], ... one per '?'
BoundIds(args, from, count) == { args[from + k] : k \in 0..(count - 1) }

\* UPDATE books SET has_sales = ? WHERE id IN (?,...,?) with args <<status>> \o ids
UpdateSalesIn_NoWhere(rows, args, count) ==
    { [b EXCEPT !.HasSales = args[1]] : b \in rows }

UpdateSalesIn(rows, args, count) ==
    { IF b.ID \in BoundIds(args, 2, count) THEN [b EXCEPT !.HasSales = args[1]] ELSE b
      : b \in rows }

\* DELETE FROM books WHERE id IN (?,...,?) with args ids
DeleteIn_NoWhere(rows, args, count) == {}

DeleteIn(rows, args, count) == { b \in rows : b.ID \notin BoundIds(args, 1, count) }

\* the rowid AUTOINCREMENT gives the next inserted row
NextRowId(rows, counter) == SetMax({counter} \cup { b.ID : b \in rows }) + 1

\* an insert of the title alone: has_sales takes the column default 0
InsertRow_DefaultSales(rows, counter, book) ==
    rows \cup { [ID |-> NextRowId(rows, counter), Title |-> book.Title,
                 HasSales |-> FALSE] }

\* an insert that takes the id from the caller's Book
InsertRow_InputId(rows, counter, book) ==
    rows \cup { [ID |-> book.ID, Title |-> book.Title, HasSales |-> book.HasSales] }

\* INSERT INTO books (title, has_sales) VALUES (?, ?)
InsertRow(rows, counter, book) ==
    rows \cup { [ID |-> NextRowId(rows, counter), Title |-> book.Title,
                 HasSales |-> book.HasSales] }

----------------------------------------------------------------------------
(* The single-statement methods *)

\* a GetBook that swallows sql.ErrNoRows and returns the empty Book
GetBook_ZeroBook(id, fail) ==
    /\ resp' = IF fail THEN [Returned("GetBook", ErrStore, 1) EXCEPT !.id = id]
               ELSE IF SelectById(books, id) = {}
                    THEN [Returned("GetBook", ErrNil, 1)
                            EXCEPT !.id = id, !.book = << ZeroBook >>]
                    ELSE [Returned("GetBook", ErrNil, 1)
                            EXCEPT !.id = id,
                                   !.book = << CHOOSE b \in SelectById(books, id) : TRUE >>]
    /\ UNCHANGED <<books, seq, list, bulk>>

GetBook(id, fail) ==
    /\ resp' = IF fail THEN [Returned("GetBook", ErrStore, 1) EXCEPT !.id = id]
               ELSE IF SelectById(books, id) = {}
                    THEN [Returned("GetBook", ErrNoRows, 1) EXCEPT !.id = id]
                    ELSE [Returned("GetBook", ErrNil, 1)
                            EXCEPT !.id = id,
                                   !.book = << CHOOSE b \in SelectById(books, id) : TRUE >>]
    /\ UNCHANGED <<books, seq, list, bulk>>

UpdateBook(book, fail) ==
    /\ fail \/ WriteLockFree
    /\ books' = IF fail THEN books ELSE UpdateRow(books, book)
    /\ resp' = [Returned("UpdateBook", IF fail THEN ErrStore ELSE ErrNil, 1)
                 EXCEPT !.entity = book]
    /\ UNCHANGED <<seq, list, bulk>>

BulkUpdateBooksSalesStatus(ids, status, fail) ==
    IF Len(ids) = 0
    THEN /\ resp' = [Returned("BulkUpdateBooksSalesStatus", ErrNil, 0)
                      EXCEPT !.ids = ids, !.status = status]
         /\ UNCHANGED <<books, seq, list, bulk>>
    ELSE /\ fail \/ WriteLockFree
         /\ books' = IF fail THEN books
                     ELSE UpdateSalesIn(books, <<status>> \o ids, InPlaceholders(Len(ids)))
         /\ resp' = [Returned("BulkUpdateBooksSalesStatus",
                              IF fail THEN ErrStore ELSE ErrNil, 1)
                      EXCEPT !.ids = ids, !.status = status]
         /\ UNCHANGED <<seq, list, bulk>>

CreateBook(book, fail) ==
    /\ fail \/ (WriteLockFree /\ NextRowId(books, seq) <= MaxId)
    /\ books' = IF fail THEN books ELSE InsertRow(books, seq, book)
    /\ seq' = IF fail THEN seq ELSE NextRowId(books, seq)
    /\ resp' = IF fail THEN [Returned("CreateBook", ErrStore, 1) EXCEPT !.entity = book]
               ELSE [Returned("CreateBook", ErrNil, 1)
                       EXCEPT !.entity = book,
                              !.book = << [book EXCEPT !.ID = NextRowId(books, seq)] >>]
    /\ UNCHANGED <<list, bulk>>

\* a DeleteBooks without the len(ids) == 0 return: the statement is sent for
\* the empty list too
DeleteBooks_NoEarlyReturn(ids, fail) ==
    /\ fail \/ WriteLockFree
    /\ books' = IF fail THEN books ELSE { b \in books : b.ID \notin Range(ids) }
    /\ resp' = [Returned("DeleteBooks", IF fail THEN ErrStore ELSE ErrNil, 1)
                 EXCEPT !.ids = ids]
    /\ UNCHANGED <<seq, list, bulk>>

DeleteBooks(ids, fail) ==
    IF Len(ids) = 0
    THEN /\ resp' = [Returned("DeleteBooks", ErrNil, 0) EXCEPT !.ids = ids]
         /\ UNCHANGED <<books, seq, list, bulk>>
    ELSE /\ fail \/ WriteLockFree
         /\ books' = IF fail THEN books ELSE DeleteIn(books, ids, InPlaceholders(Len(ids)))
         /\ resp' = [Returned("DeleteBooks", IF fail THEN ErrStore ELSE ErrNil, 1)
                      EXCEPT !.ids = ids]
         /\ UNCHANGED <<seq, list, bulk>>

----------------------------------------------------------------------------
(* ListBooks: the count statement, then the page select statement *)

ListBooksCount(limit, offset, search, filter, fail) ==
    /\ list.pc = "idle"
    /\ IF fail
       THEN /\ resp' = [Returned("ListBooks", ErrStore, 1)
                         EXCEPT !.limit = limit, !.offset = offset,
                                !.search = search, !.filter = filter]
            /\ UNCHANGED list
       ELSE /\ list' = [pc |-> "select", limit |-> limit, offset |-> offset,
                        search |-> search, filter |-> filter,
                        totalCount |-> CountQuery(books, WhereClauses(search, filter),
                                                  WhereArgs(search))]
            /\ resp' = NoCall
    /\ UNCHANGED <<books, seq, bulk>>

\* the rows the for rows.Next() loop appends: all of the page, or only the
\* first scanned ones when the iteration stops on an error (rows.Err() is
\* never read)
Scanned(page, scanned) == SubSeq(page, 1, Min(scanned, Len(page)))

\* what rows.Err() holds when the loop ends: the error that made rows.Next()
\* return false before the last row
RowsErr(page, scanned) == IF scanned < Len(page) THEN ErrStore ELSE ErrNil

ListBooksSelect(scanned, fail) ==
    /\ list.pc = "select"
    /\ LET page == ListQuery(books, WhereClauses(list.search, list.filter),
                             WhereArgs(list.search), list.limit, list.offset)
           ret == [Returned("ListBooks", IF fail THEN ErrStore ELSE ErrNil, 2)
                     EXCEPT !.limit = list.limit, !.offset = list.offset,
                            !.search = list.search, !.filter = list.filter]
       IN  resp' = IF fail THEN ret
                   ELSE [ret EXCEPT !.books = Scanned(page, scanned),
                                    !.total = list.totalCount,
                                    !.rowsErr = RowsErr(page, scanned)]
    /\ list' = ListIdle
    /\ UNCHANGED <<books, seq, bulk>>

----------------------------------------------------------------------------
(* The accounts table: filled by NewDatabase, never written afterwards *)

\* the rows NewDatabase inserts, in rowid order
SampleAccounts ==
    << [ID |-> 1, Name |-> "John Doe", Email |-> "john@example.com"],
       [ID |-> 2, Name |-> "Jane Doe", Email |-> "jane@example.com"] >>

SelectAccountById(id) == SelectSeq(SampleAccounts, LAMBDA a : a.ID = id)

GetAccount(id, fail) ==
    /\ resp' = IF fail THEN [Returned("GetAccount", ErrStore, 1) EXCEPT !.id = id]
               ELSE IF SelectAccountById(id) = <<>>
                    THEN [Returned("GetAccount", ErrNoRows, 1) EXCEPT !.id = id]
                    ELSE [Returned("GetAccount", ErrNil, 1)
                            EXCEPT !.id = id, !.accounts = SelectAccountById(id)]
    /\ UNCHANGED <<books, seq, list, bulk>>

ListAccounts(scanned, fail) ==
    /\ resp' = IF fail THEN Returned("ListAccounts", ErrStore, 1)
               ELSE [Returned("ListAccounts", ErrNil, 1)
                       EXCEPT !.accounts = Scanned(SampleAccounts, scanned),
                              !.rowsErr = RowsErr(SampleAccounts, scanned)]
    /\ UNCHANGED <<books, seq, list, bulk>>

----------------------------------------------------------------------------
(* BulkUpdateBooks: one transaction, one UPDATE per entity *)

\* defer tx.Rollback(): the uncommitted rows are dropped, the lock released
Rollback == BulkIdle

BulkBegin(batch, fail) ==
    /\ bulk.pc = "idle"
    /\ IF fail
       THEN /\ resp' = [Returned("BulkUpdateBooks", ErrStore, 1) EXCEPT !.batch = batch]
            /\ UNCHANGED bulk
       ELSE /\ bulk' = [pc |-> "begun", batch |-> batch, i |-> 1, work |-> {},
                        locked |-> FALSE]
            /\ resp' = NoCall
    /\ UNCHANGED <<books, seq, list>>

BulkPrepare(fail) ==
    /\ bulk.pc = "begun"
    /\ IF fail
       THEN /\ resp' = [Returned("BulkUpdateBooks", ErrStore, 2)
                         EXCEPT !.batch = bulk.batch]
            /\ bulk' = Rollback
       ELSE /\ bulk' = [bulk EXCEPT !.pc = "prepared"]
            /\ UNCHANGED resp
    /\ UNCHANGED <<books, seq, list>>

\* a BulkExec whose failure commits the updates made so far
BulkExec_NoRollback(fail) ==
    /\ bulk.pc = "prepared"
    /\ bulk.i <= Len(bulk.batch)
    /\ IF fail
       THEN /\ resp' = [Returned("BulkUpdateBooks", ErrStore, 2 + bulk.i)
                         EXCEPT !.batch = bulk.batch]
            /\ bulk' = BulkIdle
            /\ books' = IF bulk.locked THEN bulk.work ELSE books
       ELSE /\ bulk' = [bulk EXCEPT !.i = bulk.i + 1,
                                    !.locked = TRUE,
                                    !.work = UpdateRow(IF bulk.locked THEN bulk.work ELSE books,
                                                       bulk.batch[bulk.i])]
            /\ UNCHANGED <<resp, books>>
    /\ UNCHANGED <<seq, list>>

\* a BulkExec outside the transaction: every update is committed at once
BulkExec_AutoCommit(fail) ==
    /\ bulk.pc = "prepared"
    /\ bulk.i <= Len(bulk.batch)
    /\ IF fail
       THEN /\ resp' = [Returned("BulkUpdateBooks", ErrStore, 2 + bulk.i)
                         EXCEPT !.batch = bulk.batch]
            /\ bulk' = Rollback
            /\ UNCHANGED books
       ELSE /\ bulk' = [bulk EXCEPT !.i = bulk.i + 1,
                                    !.locked = TRUE,
                                    !.work = UpdateRow(books, bulk.batch[bulk.i])]
            /\ books' = UpdateRow(books, bulk.batch[bulk.i])
            /\ UNCHANGED resp
    /\ UNCHANGED <<seq, list>>

\* the i-th stmt.ExecContext: the first write takes the write lock and works
\* on the rows as committed then; the changes stay private to the transaction
BulkExec(fail) ==
    /\ bulk.pc = "prepared"
    /\ bulk.i <= Len(bulk.batch)
    /\ IF fail
       THEN /\ resp' = [Returned("BulkUpdateBooks", ErrStore, 2 + bulk.i)
                         EXCEPT !.batch = bulk.batch]
            /\ bulk' = Rollback
       ELSE /\ bulk' = [bulk EXCEPT !.i = bulk.i + 1,
                                    !.locked = TRUE,
                                    !.work = UpdateRow(IF bulk.locked THEN bulk.work ELSE books,
                                                       bulk.batch[bulk.i])]
            /\ UNCHANGED resp
    /\ UNCHANGED <<books, seq, list>>

\* what tx.Commit() makes the committed rows
Committed(rows, tx) == IF tx.locked THEN tx.work ELSE rows

BulkCommit(fail) ==
    /\ bulk.pc = "prepared"
    /\ bulk.i > Len(bulk.batch)
    /\ books' = IF fail THEN books ELSE Committed(books, bulk)
    /\ resp' = [Returned("BulkUpdateBooks", IF fail THEN ErrStore ELSE ErrNil,
                         3 + Len(bulk.batch))
                 EXCEPT !.batch = bulk.batch]
    /\ bulk' = Rollback
    /\ UNCHANGED <<seq, list>>

----------------------------------------------------------------------------
(* Handler.ListBooks: the page number and the pagination controls.  The     *)
(* handler calls repo.ListBooks between the two; totalCount is the          *)
(* TotalCount of the result that call returned.                             *)

pageSize == 5

\* ?page= values: strconv.Atoi gives 0 for a value that is not a number
QuerySet == (-1)..MaxPage

TotalSet == 0..MaxTotal

\* if page < 1 { page = 1 }
ClampPage(query) == IF query < 1 THEN 1 ELSE query

\* int(math.Ceil(float64(n) / float64(d))) for n >= 0, d > 0
Ceil(n, d) == IF n % d = 0 THEN n \div d ELSE (n \div d) + 1

TotalPages_Truncated(totalCount) == totalCount \div pageSize

TotalPages(totalCount) == Ceil(totalCount, pageSize)

NewPagination(page, totalCount) ==
    [CurrentPage |-> page,
     TotalPages  |-> TotalPages(totalCount),
     HasPrev     |-> page > 1,
     HasNext     |-> page < TotalPages(totalCount),
     PrevPage    |-> page - 1,
     NextPage    |-> page + 1]

HandlerListBooks(query, totalCount) ==
    /\ rendered' = [done |-> TRUE, page |-> ClampPage(query), totalCount |-> totalCount,
                    Pagination |-> NewPagination(ClampPage(query), totalCount)]
    /\ UNCHANGED <<books, seq, list, bulk, resp>>

----------------------------------------------------------------------------
(* The program: requests call the repository methods concurrently *)

HandlerListBooksCall ==
    \E query \in QuerySet, totalCount \in TotalSet : HandlerListBooks(query, totalCount)

GetBookCall ==
    \E id \in IdSet, fail \in BOOLEAN : GetBook(id, fail) /\ UNCHANGED rendered

UpdateBookCall ==
    \E book \in BookInputs, fail \in BOOLEAN : UpdateBook(book, fail) /\ UNCHANGED rendered

BulkUpdateBooksSalesStatusCall ==
    \E ids \in IdLists, status \in BOOLEAN, fail \in BOOLEAN :
        BulkUpdateBooksSalesStatus(ids, status, fail) /\ UNCHANGED rendered

CreateBookCall ==
    \E book \in BookInputs, fail \in BOOLEAN : CreateBook(book, fail) /\ UNCHANGED rendered

DeleteBooksCall ==
    \E ids \in IdLists, fail \in BOOLEAN : DeleteBooks(ids, fail) /\ UNCHANGED rendered

ListBooksCall ==
    \E limit \in 1..MaxLimit, offset \in OffsetSet, search \in SearchSet,
       filter \in FilterSet, fail \in BOOLEAN :
        ListBooksCount(limit, offset, search, filter, fail) /\ UNCHANGED rendered

ListBooksReturn ==
    \E scanned \in 0..MaxLimit, fail \in BOOLEAN :
        ListBooksSelect(scanned, fail) /\ UNCHANGED rendered

GetAccountCall ==
    \E id \in IdSet, fail \in BOOLEAN : GetAccount(id, fail) /\ UNCHANGED rendered

ListAccountsCall ==
    \E scanned \in 0..Len(SampleAccounts), fail \in BOOLEAN :
        ListAccounts(scanned, fail) /\ UNCHANGED rendered

BulkUpdateBooksCall ==
    \E batch \in Batches, fail \in BOOLEAN : BulkBegin(batch, fail) /\ UNCHANGED rendered

BulkUpdateBooksStep ==
    \E fail \in BOOLEAN :
        (BulkPrepare(fail) \/ BulkExec(fail) \/ BulkCommit(fail)) /\ UNCHANGED rendered

\* every method, every interleaving of their statements
Next ==
    \/ GetBookCall
    \/ UpdateBookCall
    \/ BulkUpdateBooksSalesStatusCall
    \/ CreateBookCall
    \/ DeleteBooksCall
    \/ ListBooksCall
    \/ ListBooksReturn
    \/ BulkUpdateBooksCall
    \/ BulkUpdateBooksStep
    \/ HandlerListBooksCall
    \/ GetAccountCall
    \/ ListAccountsCall

Spec == Init /\ [][Next]_vars

----------------------------------------------------------------------------
(* Workloads: the program restricted to some of its methods.  Every         *)
(* behaviour of a workload is a behaviour of Spec.                          *)

\* the single-statement methods
CrudNext ==
    \/ GetBookCall
    \/ UpdateBookCall
    \/ BulkUpdateBooksSalesStatusCall
    \/ CreateBookCall
    \/ DeleteBooksCall

SpecCrud == Init /\ [][CrudNext]_vars

\* ListBooks calls on a store that other requests change between the calls,
\* not during them
ListNext ==
    \/ ListBooksCall
    \/ ListBooksReturn
    \/ list.pc = "idle" /\ CreateBookCall
    \/ list.pc = "idle" /\ DeleteBooksCall
    \/ list.pc = "idle" /\ ListAccountsCall

SpecList == Init /\ [][ListNext]_vars

\* ListBooks calls without a search string, with other requests writing at
\* any time, also between the two statements of a call
RaceNext ==
    \/ \E limit \in 1..MaxLimit, offset \in OffsetSet, filter \in {"all", "on_sale"},
          fail \in BOOLEAN :
            ListBooksCount(limit, offset, <<>>, filter, fail) /\ UNCHANGED rendered
    \/ ListBooksReturn
    \/ CreateBookCall
    \/ UpdateBookCall
    \/ DeleteBooksCall

SpecRace == Init /\ [][RaceNext]_vars

\* BulkUpdateBooks calls on a store that other requests change between the
\* calls, not during them
BulkNext ==
    \/ BulkUpdateBooksCall
    \/ BulkUpdateBooksStep
    \/ bulk.pc = "idle" /\ CreateBookCall
    \/ bulk.pc = "idle" /\ DeleteBooksCall
    \/ bulk.pc = "idle" /\ GetBookCall

SpecBulk == Init /\ [][BulkNext]_vars

\* DeleteBooks calls on a store that CreateBook fills
DeleteNext ==
    \/ DeleteBooksCall
    \/ CreateBookCall

SpecDelete == Init /\ [][DeleteNext]_vars

\* BulkUpdateBooksSalesStatus calls on a store that CreateBook fills
SalesNext ==
    \/ BulkUpdateBooksSalesStatusCall
    \/ CreateBookCall

SpecSales == Init /\ [][SalesNext]_vars

\* every method that writes, one call after the other; the callers pass
\* every id, one title and one flag value, id lists of one id and batches
\* of up to two entities
WriteBooks == [ID : IdSet, Title : { <<"B">> }, HasSales : { FALSE }]
WriteIdLists == { <<id>> : id \in 1..MaxId }
WriteBatches == SeqsUpTo(BatchEntities, 2)

WriteNext ==
    \/ \E batch \in WriteBatches, fail \in BOOLEAN :
          BulkBegin(batch, fail) /\ UNCHANGED rendered
    \/ BulkUpdateBooksStep
    \/ \E book \in WriteBooks, fail \in BOOLEAN :
          bulk.pc = "idle" /\ CreateBook(book, fail) /\ UNCHANGED rendered
    \/ \E book \in WriteBooks, fail \in BOOLEAN :
          bulk.pc = "idle" /\ UpdateBook(book, fail) /\ UNCHANGED rendered
    \/ \E ids \in WriteIdLists, fail \in BOOLEAN :
          bulk.pc = "idle" /\ BulkUpdateBooksSalesStatus(ids, TRUE, fail) /\ UNCHANGED rendered
    \/ \E ids \in WriteIdLists, fail \in BOOLEAN :
          bulk.pc = "idle" /\ DeleteBooks(ids, fail) /\ UNCHANGED rendered

SpecWrite == Init /\ [][WriteNext]_vars

\* BulkUpdateBooks calls with GetBook and ListBooks calls of other requests
\* at any time, also between the statements of the transaction; CreateBook
\* fills the store between the calls
ReadNext ==
    \/ \E batch \in WriteBatches, fail \in BOOLEAN :
          BulkBegin(batch, fail) /\ UNCHANGED rendered
    \/ BulkUpdateBooksStep
    \/ GetBookCall
    \/ \E filter \in { "all", "on_sale" }, fail \in BOOLEAN :
          ListBooksCount(MaxLimit, 0, <<>>, filter, fail) /\ UNCHANGED rendered
    \/ ListBooksReturn
    \/ \E book \in WriteBooks, fail \in BOOLEAN :
          /\ bulk.pc = "idle" /\ list.pc = "idle"
          /\ CreateBook(book, fail) /\ UNCHANGED rendered

SpecRead == Init /\ [][ReadNext]_vars

\* the pagination of Handler.ListBooks over every page and total count
PageNext == HandlerListBooksCall

SpecPage == Init /\ [][PageNext]_vars

----------------------------------------------------------------------------
(* Properties of ListBooks *)

ListReturned == resp.op = "ListBooks" /\ resp.err = ErrNil

RespLimit == resp.limit
RespOffset == resp.offset
RespSearch == resp.search
RespFilter == resp.filter

\* the rows of the table the call's page select ranges over: those its WHERE
\* string accepts
MatchingRows ==
    { b \in books : EvalWhere(WhereClauses(RespSearch, RespFilter), WhereArgs(RespSearch), b) }

\* C1: under SpecList (the store does not change during the call), the
\* TotalCount a ListBooks call returns is the number of rows its page select
\* returns when nothing is cut off (offset 0, limit as large as the table),
\* whatever the call's limit and offset are.
C1_TotalCountIsMatchCount ==
    ListReturned =>
        resp.total = Len(ListQuery(books, WhereClauses(RespSearch, RespFilter),
                                   WhereArgs(RespSearch), Cardinality(books) + 1, 0))

\* a call whose page (one row, from offset 1) is smaller than its count of
\* two on-sale rows
C1_Witness ==
    /\ ListReturned
    /\ RespFilter = "on_sale" /\ RespLimit = 1 /\ RespOffset = 1
    /\ resp.total = 2 /\ Len(resp.books) = 1

\* C3: every result ListBooks returns has TotalCount >= len(Books), also when
\* other requests write between the count and the page select (SpecRace).
C3_TotalCountAtLeastPage == ListReturned => resp.total >= Len(resp.books)

\* C4: the page ListBooks returns holds at most limit books.
C4_PageAtMostLimit == ListReturned => Len(resp.books) <= RespLimit

\* a page that LIMIT cut: it is full and more rows match
C4_Witness ==
    /\ ListReturned
    /\ Len(resp.books) = RespLimit
    /\ RespOffset = 0
    /\ Cardinality(MatchingRows) > RespLimit

\* whether sub occurs in str as a run of consecutive characters, letters
\* compared without regard to case
ContainsIgnoreCase(str, sub) ==
    \E k \in 0..(Len(str) - Len(sub)) :
        \A j \in 1..Len(sub) : Lower(str[k + j]) = Lower(sub[j])

\* the predicate C5 states
SubstringAndFilter(b, search, filter) ==
    /\ search = <<>> \/ ContainsIgnoreCase(b.Title, search)
    /\ filter = "on_sale" => b.HasSales
    /\ filter = "not_on_sale" => ~b.HasSales

\* C5: the books ListBooks matches are exactly those whose title contains
\* search (or search is empty) and whose has_sales agrees with the filter:
\* every book of the page is one of them and TotalCount is their number.
\* (Containment is taken without regard to case, which the spec leaves open.)
C5_MatchesSubstringAndFilter ==
    ListReturned =>
        /\ \A i \in 1..Len(resp.books) :
               SubstringAndFilter(resp.books[i], RespSearch, RespFilter)
        /\ resp.total =
               Cardinality({ b \in books : SubstringAndFilter(b, RespSearch, RespFilter) })

\* C6: a ListBooks call whose offset is at or past the number of matching
\* rows fails only if the store fails, and otherwise returns an empty page
\* with TotalCount the number of matching rows (SpecList).
C6_OffsetPastEnd ==
    (resp.op = "ListBooks" /\ RespOffset >= Cardinality(MatchingRows)) =>
        /\ resp.err \in { ErrNil, ErrStore }
        /\ resp.err = ErrNil =>
               (resp.books = <<>> /\ resp.total = Cardinality(MatchingRows))

\* an offset past the end of a non-empty match set
C6_Witness ==
    /\ ListReturned
    /\ Cardinality(MatchingRows) = 2
    /\ RespOffset >= 2
    /\ resp.books = <<>> /\ resp.total = 2

----------------------------------------------------------------------------
(* Properties of the single-statement methods (SpecCrud: every step is one  *)
(* call, and resp' is what that call returned)                              *)

Ids(rows) == { b.ID : b \in rows }

\* C7: DeleteBooks and BulkUpdateBooksSalesStatus with an empty id list return
\* nil, send no statement to the store and leave the table as it was.
C7_EmptyIdListIsNoOp ==
    [][ (/\ resp'.op \in { "DeleteBooks", "BulkUpdateBooksSalesStatus" }
         /\ Len(resp'.ids) = 0)
        => (/\ resp'.err = ErrNil
            /\ resp'.stmts = 0
            /\ books' = books
            /\ seq' = seq) ]_vars

\* BulkUpdateBooksSalesStatus([], false) returned while a row is on sale
C7_Witness ==
    /\ resp.op = "BulkUpdateBooksSalesStatus"
    /\ Len(resp.ids) = 0
    /\ resp.status = FALSE
    /\ resp.err = ErrNil
    /\ \E b \in books : b.HasSales

\* C8: a successful CreateBook returns a book with a positive id, and a
\* GetBook of that id called next returns (unless the store fails) a book
\* with that id and with the title and has-sales flag CreateBook was given.
C8_CreateThenGet ==
    [][ /\ (resp'.op = "CreateBook" /\ resp'.err = ErrNil) =>
              (Len(resp'.book) = 1 /\ resp'.book[1].ID > 0)
        /\ (/\ resp.op = "CreateBook" /\ resp.err = ErrNil
            /\ resp'.op = "GetBook" /\ resp'.id = resp.book[1].ID
            /\ resp'.err # ErrStore)
           => (/\ resp'.err = ErrNil
               /\ resp'.book = << [ID |-> resp.book[1].ID,
                                   Title |-> resp.entity.Title,
                                   HasSales |-> resp.entity.HasSales] >>) ]_vars

\* GetBook returned a row that CreateBook inserted with has_sales set
C8_Witness ==
    /\ resp.op = "GetBook" /\ resp.err = ErrNil
    /\ resp.id > NumSample
    /\ resp.book[1].ID = resp.id
    /\ resp.book[1].HasSales

\* C9: GetBook of an id no row has returns sql.ErrNoRows (or the store's own
\* failure), no book, and changes nothing; GetBook of an id a row has never
\* returns sql.ErrNoRows.
C9_GetMissingIsErrNoRows ==
    [][ resp'.op = "GetBook" =>
          /\ books' = books /\ seq' = seq
          /\ resp'.err \in { ErrNil, ErrNoRows, ErrStore }
          /\ resp'.err # ErrNil => resp'.book = <<>>
          /\ SelectById(books, resp'.id) = {} =>
                 (resp'.err # ErrNil /\ (resp'.err # ErrStore => resp'.err = ErrNoRows))
          /\ SelectById(books, resp'.id) # {} => resp'.err # ErrNoRows ]_vars

\* GetBook of a missing id returned sql.ErrNoRows while the table has rows
C9_Witness ==
    /\ resp.op = "GetBook" /\ resp.err = ErrNoRows
    /\ resp.book = <<>>
    /\ books # {}
    /\ resp.id \notin Ids(books)

\* C10: a successful UpdateBook gives the row with the entity's id the
\* entity's title and has-sales flag, keeps every other row, creates and
\* deletes none; with no such row it still returns nil and changes nothing.
\* UpdateBook never returns sql.ErrNoRows.
C10_UpdateBookFrame ==
    [][ resp'.op = "UpdateBook" =>
          /\ resp'.err \in { ErrNil, ErrStore }
          /\ seq' = seq
          /\ resp'.err = ErrStore => books' = books
          /\ resp'.err = ErrNil =>
                LET e == resp'.entity
                IN  /\ Ids(books') = Ids(books)
                    /\ Cardinality(books') = Cardinality(books)
                    /\ \A b \in books : b.ID # e.ID => b \in books'
                    /\ \A b \in books' : b.ID = e.ID =>
                           (b.Title = e.Title /\ b.HasSales = e.HasSales)
                    /\ e.ID \notin Ids(books) => books' = books ]_vars

\* UpdateBook of an id no row has returned nil
C10_Witness ==
    /\ resp.op = "UpdateBook" /\ resp.err = ErrNil
    /\ resp.entity.ID \notin Ids(books)
    /\ resp.entity.ID > 0
    /\ books # {}

----------------------------------------------------------------------------
(* Properties of BulkUpdateBooks (SpecBulk: other requests write between    *)
(* the calls, so the table a call finds stays as it is until the call ends) *)

\* the step belongs to a BulkUpdateBooks call
InBulkCall == bulk.pc # "idle" \/ bulk'.pc # "idle" \/ resp'.op = "BulkUpdateBooks"

\* the step is the return of a BulkUpdateBooks call, with nil / with an error
BulkSucceeds == resp'.op = "BulkUpdateBooks" /\ resp'.err = ErrNil
BulkFails == resp'.op = "BulkUpdateBooks" /\ resp'.err # ErrNil

\* the last entity of the batch that carries the id
LastEntity(batch, id) ==
    batch[CHOOSE i \in 1..Len(batch) :
            batch[i].ID = id /\ \A j \in (i + 1)..Len(batch) : batch[j].ID # id]

HasValues(rows, id, e) ==
    \E b \in rows : b.ID = id /\ b.Title = e.Title /\ b.HasSales = e.HasSales

\* no step of a call other than its successful return changes the table, and
\* a failed call leaves no transaction behind
BulkFailureChangesNothing ==
    /\ (InBulkCall /\ ~BulkSucceeds) => (books' = books /\ seq' = seq)
    /\ BulkFails => bulk' = BulkIdle
    /\ BulkSucceeds => (bulk.pc = "prepared" /\ bulk.i > Len(bulk.batch) /\ bulk' = BulkIdle)

\* C2 as stated: a BulkUpdateBooks call that returns an error leaves the table
\* as it found it, and after a call that returns nil every entity of the batch
\* whose id has a row finds its own title and has-sales flag in that row.
C2_AllOrNothing_EveryEntity ==
    [][ /\ BulkFailureChangesNothing
        /\ BulkSucceeds =>
              \A i \in 1..Len(resp'.batch) :
                  resp'.batch[i].ID \in Ids(books') =>
                      HasValues(books', resp'.batch[i].ID, resp'.batch[i]) ]_vars

\* C2 amended: a BulkUpdateBooks call that returns an error leaves the table
\* as it found it, and after a call that returns nil every id of the batch
\* that has a row has the title and has-sales flag of the last entity of the
\* batch with that id.
C2_AllOrNothing_LastEntity ==
    [][ /\ BulkFailureChangesNothing
        /\ BulkSucceeds =>
              \A i \in 1..Len(resp'.batch) :
                  resp'.batch[i].ID \in Ids(books') =>
                      HasValues(books', resp'.batch[i].ID,
                                LastEntity(resp'.batch, resp'.batch[i].ID)) ]_vars

\* a call failed after its first row update ran (at the second update or at
\* the commit), and the row that update wrote to is as it was
C2_Witness ==
    /\ resp.op = "BulkUpdateBooks" /\ resp.err = ErrStore
    /\ Len(resp.batch) >= 1
    /\ resp.stmts >= 4
    /\ resp.batch[1].ID \in Ids(books)
    /\ ~HasValues(books, resp.batch[1].ID, resp.batch[1])
    /\ bulk = BulkIdle

----------------------------------------------------------------------------
(* Properties of the pagination controls *)

RenderedPage == rendered.page
RenderedTotal == rendered.totalCount
RenderedPagination == rendered.Pagination

\* k is the least number of pages of size pageSize that hold n books
IsCeilOfPages(k, n) == k * pageSize >= n /\ (k - 1) * pageSize < n

\* C11: for every total count >= 0 and every page >= 1 the handler renders
\* TotalPages = ceil(total / 5), HasPrev = (page > 1), HasNext = (page <
\* TotalPages), PrevPage = page - 1 and NextPage = page + 1; total 12 on
\* page 2 gives 3 pages, both flags true, PrevPage 1 and NextPage 3; total 0
\* gives a Pagination whose HasNext is false.
C11_PaginationMetadata ==
    rendered.done =>
        /\ RenderedPage >= 1
        /\ RenderedPagination.CurrentPage = RenderedPage
        /\ IsCeilOfPages(RenderedPagination.TotalPages, RenderedTotal)
        /\ RenderedPagination.HasPrev = (RenderedPage > 1)
        /\ RenderedPagination.HasNext = (RenderedPage < RenderedPagination.TotalPages)
        /\ RenderedPagination.PrevPage = RenderedPage - 1
        /\ RenderedPagination.NextPage = RenderedPage + 1
        /\ (RenderedTotal = 12 /\ RenderedPage = 2) =>
               RenderedPagination = [CurrentPage |-> 2, TotalPages |-> 3, HasPrev |-> TRUE,
                                     HasNext |-> TRUE, PrevPage |-> 1, NextPage |-> 3]
        /\ RenderedTotal = 0 => ~RenderedPagination.HasNext

C11_Witness ==
    /\ rendered.done
    /\ RenderedTotal = 12
    /\ RenderedPage = 2
    /\ RenderedPagination.TotalPages = 3
    /\ RenderedPagination.HasNext

----------------------------------------------------------------------------
(* Properties of error propagation *)

\* the store failed while the rows of the call's result were iterated
IterationFailed == resp.op \in {"ListBooks", "ListAccounts"} /\ resp.rowsErr # ErrNil

\* C12: a store failure at any step of a repository method, also one that
\* stops the iteration of the result rows of ListBooks or ListAccounts,
\* makes the method return an error, never a success result.
C12_StoreFailureIsReturned == IterationFailed => resp.err # ErrNil

----------------------------------------------------------------------------
(* Properties of DeleteBooks *)

\* C13: DeleteBooks with a non-empty id list removes exactly the rows whose
\* id is in the list (ids without a row and repeated ids are tolerated);
\* every row whose id is not in the list keeps its id, title and has-sales
\* flag.
C13_DeleteExactlyListed ==
    [][ (/\ resp'.op = "DeleteBooks"
         /\ Len(resp'.ids) > 0
         /\ resp'.err = ErrNil)
        => (/\ \A b \in books : b.ID \in Range(resp'.ids) => b.ID \notin Ids(books')
            /\ \A b \in books : b.ID \notin Range(resp'.ids) => b \in books'
            /\ books' \subseteq books) ]_vars

\* DeleteBooks(<<2, 2>>) returned nil: row 2 is gone, row 1 is still there
C13_Witness ==
    /\ resp.op = "DeleteBooks"
    /\ resp.err = ErrNil
    /\ resp.ids = <<2, 2>>
    /\ seq = 2
    /\ Ids(books) = {1}

----------------------------------------------------------------------------
(* Properties of BulkUpdateBooksSalesStatus *)

\* C14: BulkUpdateBooksSalesStatus with 1..N ids sends one statement with one
\* placeholder per id plus one for the status; after it succeeds every row
\* whose id is in ids has has-sales = status, every row keeps its title,
\* every row not in ids keeps its has-sales flag, and no row is created or
\* deleted.
C14_SalesStatusOfListed ==
    [][ (/\ resp'.op = "BulkUpdateBooksSalesStatus"
         /\ Len(resp'.ids) > 0)
        => (/\ resp'.stmts = 1
            /\ 1 + InPlaceholders(Len(resp'.ids)) = Len(<<resp'.status>> \o resp'.ids)
            /\ resp'.err = ErrNil =>
                  /\ Ids(books') = Ids(books)
                  /\ Cardinality(books') = Cardinality(books)
                  /\ \A b \in books : \E c \in books' :
                         /\ c.ID = b.ID
                         /\ c.Title = b.Title
                         /\ c.HasSales = IF b.ID \in Range(resp'.ids)
                                         THEN resp'.status ELSE b.HasSales) ]_vars

\* BulkUpdateBooksSalesStatus(<<2, 2>>, true) returned nil: row 2 is on sale,
\* row 1 is still off sale
C14_Witness ==
    /\ resp.op = "BulkUpdateBooksSalesStatus"
    /\ resp.err = ErrNil
    /\ resp.ids = <<2, 2>>
    /\ resp.status
    /\ \E b \in books : b.ID = 2 /\ b.HasSales
    /\ \E b \in books : b.ID = 1 /\ ~b.HasSales

----------------------------------------------------------------------------
(* Properties of the identifiers *)

\* no two rows share an id, every id is a positive integer
IdsWellFormed(rows) ==
    /\ \A a \in rows, b \in rows : a.ID = b.ID => a = b
    /\ \A b \in rows : b.ID \in Nat /\ b.ID > 0

CreateReturned == resp.op = "CreateBook" /\ resp.err = ErrNil

\* C15: after any sequence of repository operations no two rows share an id
\* and every id is positive; a successful CreateBook returns an id that no
\* row held, whatever id its input carries, and adds the row under that id;
\* only DeleteBooks takes ids away; UpdateBook, BulkUpdateBooks and
\* BulkUpdateBooksSalesStatus leave the ids of the rows as they are.
C15_IdsUniqueStoreAssigned ==
    /\ IdsWellFormed(books)
    /\ [][ /\ IdsWellFormed(books')
           /\ IF resp'.op = "CreateBook" /\ resp'.err = ErrNil
              THEN /\ Len(resp'.book) = 1
                   /\ resp'.book[1].ID \notin Ids(books)
                   /\ resp'.book[1].ID > 0
                   /\ Ids(books') = Ids(books) \cup { resp'.book[1].ID }
                   /\ books \subseteq books'
              ELSE IF resp'.op = "DeleteBooks"
              THEN Ids(books') \subseteq Ids(books)
              ELSE Ids(books') = Ids(books) /\ Cardinality(books') = Cardinality(books)
         ]_vars

\* CreateBook of a Book that carries the id of row 1 returned id 2, and both
\* rows are in the table
C15_Witness ==
    /\ CreateReturned
    /\ resp.entity.ID = 1
    /\ resp.book[1].ID = 2
    /\ Ids(books) = {1, 2}

----------------------------------------------------------------------------
(* Properties of reads concurrent with BulkUpdateBooks *)

\* the rows after every entity of the batch was applied, in order
RECURSIVE AllApplied(_, _)
AllApplied(rows, batch) ==
    IF batch = <<>> THEN rows
    ELSE AllApplied({ IF b.ID = Head(batch).ID
                      THEN [ID |-> b.ID, Title |-> Head(batch).Title,
                            HasSales |-> Head(batch).HasSales]
                      ELSE b : b \in rows },
                    Tail(batch))

\* the step is a statement of a read: it leaves the table and the
\* transaction alone
ReadStep == books' = books /\ bulk' = bulk

\* C16: every row update of a BulkUpdateBooks call runs in the transaction
\* the call opened; the committed rows change only at its commit, and then
\* to the rows with the whole batch applied; a concurrent GetBook and each
\* statement of a concurrent ListBooks read the committed rows, so they see
\* the table before the batch or after its commit, never with a part of
\* the batch applied.
C16_ReadsSeeNoPartialBatch ==
    [][ /\ (bulk'.work # bulk.work /\ bulk'.pc # "idle") =>
               (bulk.pc = "prepared" /\ bulk'.locked /\ books' = books)
        /\ (books' # books /\ resp'.op # "CreateBook") =>
               /\ bulk.pc = "prepared"
               /\ bulk.i > Len(bulk.batch)
               /\ resp'.op = "BulkUpdateBooks" /\ resp'.err = ErrNil
               /\ books' = AllApplied(books, bulk.batch)
        /\ (ReadStep /\ resp'.op = "GetBook" /\ resp'.err = ErrNil) =>
               (Len(resp'.book) = 1 /\ resp'.book[1] \in books)
        /\ (ReadStep /\ list.pc = "idle" /\ list'.pc = "select" /\ list'.filter = "all") =>
               list'.totalCount = Cardinality(books)
        /\ (ReadStep /\ list.pc = "select" /\ resp'.op = "ListBooks" /\ resp'.err = ErrNil) =>
               Range(resp'.books) \subseteq books ]_vars

\* a GetBook of row 1 returned while a batch of two updates had run its
\* first update of row 1: the result is the committed row, not the updated one
C16_Witness ==
    /\ bulk.pc = "prepared"
    /\ Len(bulk.batch) = 2
    /\ bulk.i = 2
    /\ bulk.batch[1].ID = 1
    /\ bulk.work # books
    /\ resp.op = "GetBook"
    /\ resp.err = ErrNil
    /\ resp.book[1] \in books
    /\ resp.book[1] \notin bulk.work

----------------------------------------------------------------------------
(* Properties of the page *)

\* the number of matching rows that come before b in ascending id order
RankOf(b) == Cardinality({ m \in MatchingRows : m.ID < b.ID })

\* the number of rows at positions offset .. offset+limit-1 of n rows
PageLength(n, limit, offset) == IF offset >= n THEN 0 ELSE Min(limit, n - offset)

\* C17: under SpecList (the store does not change during the call), the page
\* a ListBooks call returns holds exactly the matching rows at positions
\* offset .. offset+limit-1 of the matching rows in strictly ascending id
\* order, so that the pages at offsets 0, limit, 2*limit, ... are disjoint
\* and make up the whole match set.
C17_PageIsSliceOfOrderedMatches ==
    ListReturned =>
        /\ Len(resp.books) = PageLength(Cardinality(MatchingRows), RespLimit, RespOffset)
        /\ \A k \in 1..Len(resp.books) :
               /\ resp.books[k] \in MatchingRows
               /\ RankOf(resp.books[k]) = RespOffset + k - 1

====
